---- MODULE Spec2Model ----
(***************************************************************************)
(* Frame lifecycle and resource graph of the Vulkan application            *)
(* (class Application, src/unnamed/part_001; Vertex, src/unnamed/part_002; *)
(* vertex shader, src/resources/cloth.vert).                               *)
(*                                                                         *)
(* The CPU thread of main() is one sequential process whose position is    *)
(* pc.  The GPU (completion of queue submissions) and the window system    *)
(* (resize, minimise, close requests) are the environment.                 *)
(***************************************************************************)
EXTENDS Integers, Sequences, FiniteSets, TLC

\* ------------------------------------------------------------------ bounds
\* largest number of images the driver may give a swapchain
MaxImages == 3

\* longest list of surface formats / present modes the surface reports
MaxFormats == 3
MaxModes == 3
\* largest memoryTypeCount and number of bits of VkMemoryPropertyFlags in use
MaxMemoryTypes == 2
PropertyFlagBits == 2

\* -------------------------------------------------------- program constants
MAX_FRAMES_IN_FLIGHT == 2
\* smallest number of images of a swapchain (minImageCount + 1, minImageCount >= 1)
MinImages == 2

\* the integer value of a VkResult enumerator (vulkan_core.h): the code compares
\* a VkResult with a bool, which converts both to int
VkResultValue(r) ==
  CASE r = "VK_SUCCESS" -> 0
    [] r = "VK_NOT_READY" -> 1
    [] r = "VK_TIMEOUT" -> 2
    [] r = "VK_SUBOPTIMAL_KHR" -> 1000001003
    [] r = "VK_ERROR_DEVICE_LOST" -> -4
    [] r = "VK_ERROR_SURFACE_LOST_KHR" -> -1000000000
    [] r = "VK_ERROR_OUT_OF_DATE_KHR" -> -1000001004

Frames == 0 .. (MAX_FRAMES_IN_FLIGHT - 1)
ImageCounts == MinImages .. MaxImages

\* results vkAcquireNextImageKHR / vkQueuePresentKHR / vkQueueSubmit may hand back
AcquireResults ==
  {"VK_SUCCESS", "VK_NOT_READY", "VK_TIMEOUT", "VK_SUBOPTIMAL_KHR",
   "VK_ERROR_OUT_OF_DATE_KHR", "VK_ERROR_DEVICE_LOST", "VK_ERROR_SURFACE_LOST_KHR"}
PresentResults ==
  {"VK_SUCCESS", "VK_NOT_READY", "VK_SUBOPTIMAL_KHR",
   "VK_ERROR_OUT_OF_DATE_KHR", "VK_ERROR_DEVICE_LOST", "VK_ERROR_SURFACE_LOST_KHR"}
SubmitResults == {"VK_SUCCESS", "VK_ERROR_DEVICE_LOST"}

\* a C++ bool converted to int, as in a comparison with a VkResult
BoolToInt(b) == IF b THEN 1 ELSE 0

\* ------------------------------------------------- handles and their objects
ScalarKinds ==
  {"window", "instance", "surface", "device", "swapChain", "renderPass",
   "descriptorSetLayout", "pipelineLayout", "graphicsPipeline",
   "vertShaderModule", "fragShaderModule", "commandPool",
   "singleTimeCommandBuffer", "stagingBuffer", "stagingBufferMemory",
   "textureImage", "textureImageMemory", "textureImageView", "textureSampler",
   "vertexBuffer", "vertexBufferMemory", "indexBuffer", "indexBufferMemory",
   "descriptorPool"}
VectorKinds ==
  {"swapChainImages", "swapChainImageViews", "swapChainFramebuffers",
   "commandBuffers", "uniformBuffers", "uniformBuffersMemory", "descriptorSets",
   "imageAvailableSemaphores", "renderFinishedSemaphores", "inFlightFences"}
Kinds == ScalarKinds \cup VectorKinds

\* objects the driver frees together with the object they were taken from
Owned(k) ==
  CASE k = "swapChain" -> {"swapChainImages"}
    [] k = "descriptorPool" -> {"descriptorSets"}
    [] k = "commandPool" -> {"commandBuffers"}
    [] OTHER -> {}

\* objects created from the logical device (first parameter VkDevice)
DeviceChildren == Kinds \ {"window", "instance", "surface", "device"}

\* ------------------------------------------------------------ vertex layout
\* struct Vertex: its fields and the number of float components of each
Vertex ==
  << [name |-> "pos", type |-> "vec2"], [name |-> "color", type |-> "vec3"] >>

\* the initialiser of each element of the vertices array: one brace group per
\* field, with the number of floats in it
vertices ==
  [v \in 1 .. 4 |-> << 2, 3, 2 >>]

\* layout(location = n) in ... of the vertex shader
ShaderInputs ==
  << [location |-> 0, type |-> "vec3", name |-> "inPosition"],
     [location |-> 1, type |-> "vec3", name |-> "inColor"],
     [location |-> 2, type |-> "vec2", name |-> "inTexCoord"] >>

\* number of components of a GLSL / glm vector type
TypeComponents(t) == CASE t = "vec2" -> 2 [] t = "vec3" -> 3 [] t = "vec4" -> 4

\* number of components of a VkFormat
FormatComponents(fmt) ==
  CASE fmt = "VK_FORMAT_R32G32_SFLOAT" -> 2
    [] fmt = "VK_FORMAT_R32G32B32_SFLOAT" -> 3

\* Vertex::getAttributeDescriptions
getAttributeDescriptions ==
  << [binding |-> 0, location |-> 0, format |-> "VK_FORMAT_R32G32_SFLOAT",
      field |-> "pos"],
     [binding |-> 0, location |-> 1, format |-> "VK_FORMAT_R32G32B32_SFLOAT",
      field |-> "color"] >>

\* ------------------------------------------------------ calls of a function
\* A function of the program is the sequence of the calls it makes that create,
\* destroy or may fail.  checked: the code tests the result and throws msg.
Create(obj, slot, msg) ==
  [op |-> "create", obj |-> obj, slot |-> slot, checked |-> TRUE, msg |-> msg]
CreateUnchecked(obj, slot) ==
  [op |-> "create", obj |-> obj, slot |-> slot, checked |-> FALSE, msg |-> ""]
Check(msg) ==
  [op |-> "check", obj |-> "", slot |-> 0, checked |-> TRUE, msg |-> msg]
Call(name) ==
  [op |-> "call", obj |-> name, slot |-> 0, checked |-> FALSE, msg |-> ""]
Resize(obj, n) ==
  [op |-> "resize", obj |-> obj, slot |-> n, checked |-> FALSE, msg |-> ""]
Destroy(obj, slot) ==
  [op |-> "destroy", obj |-> obj, slot |-> slot, checked |-> FALSE, msg |-> ""]

RECURSIVE Concat(_)
Concat(seqs) == IF seqs = << >> THEN << >> ELSE Head(seqs) \o Concat(Tail(seqs))

initWindow == << CreateUnchecked("window", 1) >>

createInstance ==
  << Check("validation layers requested, but not available!"),
     Call("vkEnumerateInstanceExtensionProperties"),
     Create("instance", 1, "Failed to create instance.") >>

createSurface == << Create("surface", 1, "failed to create window surface!") >>

pickPhysicalDevice ==
  << Check("failed to find GPUs with Vulkan support!"),
     Check("failed to find a suitable GPU!") >>

createLogicalDevice == << Create("device", 1, "failed to create logical device!") >>

createSwapChain(n) ==
  << Call("vkGetPhysicalDeviceSurfaceCapabilitiesKHR"),
     Create("swapChain", 1, "failed to create swap chain!"),
     Call("vkGetSwapchainImagesKHR"),
     Resize("swapChainImages", n) >>
  \o [i \in 1 .. n |-> CreateUnchecked("swapChainImages", i)]

createImageView(obj, slot) == << Create(obj, slot, "failed to create image view!") >>

createImageViews(nImages) ==
  << Resize("swapChainImageViews", nImages) >>
  \o Concat([i \in 1 .. nImages |-> createImageView("swapChainImageViews", i)])

createRenderPass == << Create("renderPass", 1, "failed to create render pass!") >>

createDescriptorSetLayout ==
  << Create("descriptorSetLayout", 1, "failed to create descriptor set layout!") >>

createShaderModule(obj) == << Create(obj, 1, "failed to create shader module!") >>

createGraphicsPipeline ==
  << Check("failed to open file!"), Check("failed to open file!") >>
  \o createShaderModule("vertShaderModule")
  \o createShaderModule("fragShaderModule")
  \o << Create("pipelineLayout", 1, "failed to create pipeline layout!"),
        Create("graphicsPipeline", 1, "failed to create graphics pipeline!"),
        Destroy("fragShaderModule", 1),
        Destroy("vertShaderModule", 1) >>

\* a createFramebuffers that leaves out the framebuffer of the last image view
createFramebuffersShort(nViews) ==
  << Resize("swapChainFramebuffers", nViews - 1) >>
  \o [i \in 1 .. (nViews - 1) |->
        Create("swapChainFramebuffers", i, "failed to create framebuffer!")]

createFramebuffers(nViews) ==
  << Resize("swapChainFramebuffers", nViews) >>
  \o [i \in 1 .. nViews |->
        Create("swapChainFramebuffers", i, "failed to create framebuffer!")]

createCommandPool == << Create("commandPool", 1, "failed to create command pool!") >>

createBuffer(buffer, memory, slot) ==
  << Create(buffer, slot, "failed to create buffer!"),
     Check("failed to find suitable memory type!"),
     Create(memory, slot, "failed to allocate buffer memory!"),
     Call("vkBindBufferMemory") >>

beginSingleTimeCommands ==
  << CreateUnchecked("singleTimeCommandBuffer", 1), Call("vkBeginCommandBuffer") >>

endSingleTimeCommands ==
  << Call("vkEndCommandBuffer"), Call("vkQueueSubmit"), Call("vkQueueWaitIdle"),
     Destroy("singleTimeCommandBuffer", 1) >>

copyBuffer == beginSingleTimeCommands \o endSingleTimeCommands

copyBufferToImage == beginSingleTimeCommands \o endSingleTimeCommands

\* both call sites pass a supported pair of layouts: the invalid_argument
\* branch is not reachable
transitionImageLayout == beginSingleTimeCommands \o endSingleTimeCommands

createImage ==
  << Create("textureImage", 1, "failed to create image!"),
     Check("failed to find suitable memory type!"),
     Create("textureImageMemory", 1, "failed to allocate image memory!"),
     Call("vkBindImageMemory") >>

createTextureImage ==
  << Check("failed to load texture image!") >>
  \o createBuffer("stagingBuffer", "stagingBufferMemory", 1)
  \o << Call("vkMapMemory") >>
  \o createImage
  \o transitionImageLayout
  \o copyBufferToImage
  \o transitionImageLayout
  \o << Destroy("stagingBuffer", 1), Destroy("stagingBufferMemory", 1) >>

createTextureImageView == createImageView("textureImageView", 1)

createTextureSampler ==
  << Create("textureSampler", 1, "failed to create texture sampler!") >>

createVertexBuffer ==
  createBuffer("stagingBuffer", "stagingBufferMemory", 1)
  \o << Call("vkMapMemory") >>
  \o createBuffer("vertexBuffer", "vertexBufferMemory", 1)
  \o copyBuffer
  \o << Destroy("stagingBuffer", 1), Destroy("stagingBufferMemory", 1) >>

createIndexBuffer ==
  createBuffer("stagingBuffer", "stagingBufferMemory", 1)
  \o << Call("vkMapMemory") >>
  \o createBuffer("indexBuffer", "indexBufferMemory", 1)
  \o copyBuffer
  \o << Destroy("stagingBuffer", 1), Destroy("stagingBufferMemory", 1) >>

createUniformBuffers ==
  << Resize("uniformBuffers", MAX_FRAMES_IN_FLIGHT),
     Resize("uniformBuffersMemory", MAX_FRAMES_IN_FLIGHT) >>
  \o Concat([i \in 1 .. MAX_FRAMES_IN_FLIGHT |->
        createBuffer("uniformBuffers", "uniformBuffersMemory", i)
        \o << Call("vkMapMemory") >>])

createDescriptorPool ==
  << Create("descriptorPool", 1, "failed to create descriptor pool!") >>

\* a createDescriptorSets that binds uniformBuffers[0] in every set
descriptorWritesFirstBuffer ==
  [i \in Frames |->
     [binding0 |-> [buffer |-> << "uniformBuffers", 0 >>],
      binding1 |-> [imageView |-> "textureImageView", sampler |-> "textureSampler"]]]

\* what createDescriptorSets writes into descriptorSets[i] with
\* vkUpdateDescriptorSets: dstBinding 0 the uniform buffer (bufferInfo.buffer),
\* dstBinding 1 the combined image sampler (imageInfo)
descriptorWrites ==
  [i \in Frames |->
     [binding0 |-> [buffer |-> << "uniformBuffers", i >>],
      binding1 |-> [imageView |-> "textureImageView", sampler |-> "textureSampler"]]]

createDescriptorSets ==
  << Resize("descriptorSets", MAX_FRAMES_IN_FLIGHT),
     Check("failed to allocate descriptor sets!") >>
  \o [i \in 1 .. MAX_FRAMES_IN_FLIGHT |-> CreateUnchecked("descriptorSets", i)]

createCommandBuffers ==
  << Resize("commandBuffers", MAX_FRAMES_IN_FLIGHT),
     Check("failed to allocate command buffers!") >>
  \o [i \in 1 .. MAX_FRAMES_IN_FLIGHT |-> CreateUnchecked("commandBuffers", i)]

createSyncObjects ==
  << Resize("imageAvailableSemaphores", MAX_FRAMES_IN_FLIGHT),
     Resize("renderFinishedSemaphores", MAX_FRAMES_IN_FLIGHT),
     Resize("inFlightFences", MAX_FRAMES_IN_FLIGHT) >>
  \o Concat([i \in 1 .. MAX_FRAMES_IN_FLIGHT |->
        << Create("imageAvailableSemaphores", i, "failed to create semaphores!"),
           Create("renderFinishedSemaphores", i, "failed to create semaphores!"),
           Create("inFlightFences", i, "failed to create semaphores!") >>])

\* the members of Application a creation step reads that it has not assigned
\* itself, through the functions it calls (findQueueFamilies and
\* querySwapChainSupport read surface, findMemoryType reads physicalDevice,
\* begin/endSingleTimeCommands read commandPool and graphicsQueue,
\* chooseSwapExtent reads window)
StepInputs(step) ==
  CASE step = "createInstance" -> {}
    [] step = "createSurface" -> {"window", "instance"}
    [] step = "pickPhysicalDevice" -> {"instance", "surface"}
    [] step = "createLogicalDevice" -> {"physicalDevice", "surface"}
    [] step = "createSwapChain" -> {"physicalDevice", "surface", "device", "window"}
    [] step = "createImageViews" ->
         {"swapChainImages", "swapChainImageFormat", "device"}
    [] step = "createRenderPass" -> {"swapChainImageFormat", "device"}
    [] step = "createDescriptorSetLayout" -> {"device"}
    [] step = "createGraphicsPipeline" ->
         {"device", "descriptorSetLayout", "renderPass"}
    [] step = "createFramebuffers" ->
         {"swapChainImageViews", "renderPass", "swapChainExtent", "device"}
    [] step = "createCommandPool" -> {"physicalDevice", "surface", "device"}
    [] step = "createTextureImage" ->
         {"device", "physicalDevice", "commandPool", "graphicsQueue"}
    [] step = "createTextureImageView" -> {"textureImage", "device"}
    [] step = "createTextureSampler" -> {"physicalDevice", "device"}
    [] step = "createVertexBuffer" ->
         {"device", "physicalDevice", "commandPool", "graphicsQueue"}
    [] step = "createIndexBuffer" ->
         {"device", "physicalDevice", "commandPool", "graphicsQueue"}
    [] step = "createUniformBuffers" -> {"device", "physicalDevice"}
    [] step = "createDescriptorPool" -> {"device"}
    [] step = "createDescriptorSets" ->
         {"descriptorSetLayout", "descriptorPool", "device", "uniformBuffers",
          "textureImageView", "textureSampler"}
    [] step = "createCommandBuffers" -> {"commandPool", "device"}
    [] step = "createSyncObjects" -> {"device"}

\* the members of Application a creation step assigns and leaves in place
StepOutputs(step) ==
  CASE step = "createInstance" -> {"instance"}
    [] step = "createSurface" -> {"surface"}
    [] step = "pickPhysicalDevice" -> {"physicalDevice"}
    [] step = "createLogicalDevice" -> {"device", "graphicsQueue", "presentQueue"}
    [] step = "createSwapChain" ->
         {"swapChain", "swapChainImages", "swapChainImageFormat", "swapChainExtent"}
    [] step = "createImageViews" -> {"swapChainImageViews"}
    [] step = "createRenderPass" -> {"renderPass"}
    [] step = "createDescriptorSetLayout" -> {"descriptorSetLayout"}
    [] step = "createGraphicsPipeline" -> {"pipelineLayout", "graphicsPipeline"}
    [] step = "createFramebuffers" -> {"swapChainFramebuffers"}
    [] step = "createCommandPool" -> {"commandPool"}
    [] step = "createTextureImage" -> {"textureImage", "textureImageMemory"}
    [] step = "createTextureImageView" -> {"textureImageView"}
    [] step = "createTextureSampler" -> {"textureSampler"}
    [] step = "createVertexBuffer" -> {"vertexBuffer", "vertexBufferMemory"}
    [] step = "createIndexBuffer" -> {"indexBuffer", "indexBufferMemory"}
    [] step = "createUniformBuffers" ->
         {"uniformBuffers", "uniformBuffersMemory", "uniformBuffersMapped"}
    [] step = "createDescriptorPool" -> {"descriptorPool"}
    [] step = "createDescriptorSets" -> {"descriptorSets"}
    [] step = "createCommandBuffers" -> {"commandBuffers"}
    [] step = "createSyncObjects" ->
         {"imageAvailableSemaphores", "renderFinishedSemaphores", "inFlightFences"}

\* an initVulkan that calls createFramebuffers before createRenderPass
initVulkanFramebuffersEarly ==
  << "createInstance", "createSurface", "pickPhysicalDevice", "createLogicalDevice",
     "createSwapChain", "createImageViews", "createFramebuffers",
     "createRenderPass", "createDescriptorSetLayout", "createGraphicsPipeline",
     "createCommandPool", "createTextureImage", "createTextureImageView",
     "createTextureSampler", "createVertexBuffer", "createIndexBuffer",
     "createUniformBuffers", "createDescriptorPool", "createDescriptorSets",
     "createCommandBuffers", "createSyncObjects" >>

\* the creation steps of initVulkan, in the order it calls them
initVulkanSyncObjectsEarly ==
  << "createInstance", "createSurface", "pickPhysicalDevice", "createLogicalDevice",
     "createSwapChain", "createImageViews", "createRenderPass",
     "createDescriptorSetLayout", "createGraphicsPipeline", "createFramebuffers",
     "createCommandPool", "createTextureImage", "createTextureImageView",
     "createTextureSampler", "createVertexBuffer", "createIndexBuffer",
     "createUniformBuffers", "createDescriptorPool", "createSyncObjects",
     "createCommandBuffers", "createDescriptorSets" >>
initVulkan ==
  << "createInstance", "createSurface", "pickPhysicalDevice", "createLogicalDevice",
     "createSwapChain", "createImageViews", "createRenderPass",
     "createDescriptorSetLayout", "createGraphicsPipeline", "createFramebuffers",
     "createCommandPool", "createTextureImage", "createTextureImageView",
     "createTextureSampler", "createVertexBuffer", "createIndexBuffer",
     "createUniformBuffers", "createDescriptorPool", "createDescriptorSets",
     "createCommandBuffers", "createSyncObjects" >>

\* the calls of a creation step; n: the image count the driver gives a new
\* swapchain, nImages / nViews: the sizes of the vectors the step reads
StepCalls(step, n, nImages, nViews) ==
  CASE step = "createInstance" -> createInstance
    [] step = "createSurface" -> createSurface
    [] step = "pickPhysicalDevice" -> pickPhysicalDevice
    [] step = "createLogicalDevice" -> createLogicalDevice
    [] step = "createSwapChain" -> createSwapChain(n)
    [] step = "createImageViews" -> createImageViews(nImages)
    [] step = "createRenderPass" -> createRenderPass
    [] step = "createDescriptorSetLayout" -> createDescriptorSetLayout
    [] step = "createGraphicsPipeline" -> createGraphicsPipeline
    [] step = "createFramebuffers" -> createFramebuffers(nViews)
    [] step = "createCommandPool" -> createCommandPool
    [] step = "createTextureImage" -> createTextureImage
    [] step = "createTextureImageView" -> createTextureImageView
    [] step = "createTextureSampler" -> createTextureSampler
    [] step = "createVertexBuffer" -> createVertexBuffer
    [] step = "createIndexBuffer" -> createIndexBuffer
    [] step = "createUniformBuffers" -> createUniformBuffers
    [] step = "createDescriptorPool" -> createDescriptorPool
    [] step = "createDescriptorSets" -> createDescriptorSets
    [] step = "createCommandBuffers" -> createCommandBuffers
    [] step = "createSyncObjects" -> createSyncObjects

\* the calls of cleanupSwapChain; nFramebuffers / nViews: the sizes of the vectors
cleanupSwapChainNoViews(nFramebuffers, nViews) ==
  [i \in 1 .. nFramebuffers |-> Destroy("swapChainFramebuffers", i)]
  \o << Destroy("swapChain", 1) >>
cleanupSwapChain(nFramebuffers, nViews) ==
  [i \in 1 .. nFramebuffers |-> Destroy("swapChainFramebuffers", i)]
  \o [i \in 1 .. nViews |-> Destroy("swapChainImageViews", i)]
  \o << Destroy("swapChain", 1) >>

\* the calls of cleanup, in the order it makes them
cleanupDeviceFirst(nFramebuffers, nViews) ==
  << Destroy("device", 1) >>
  \o cleanupSwapChain(nFramebuffers, nViews)
  \o << Destroy("commandPool", 1), Destroy("surface", 1), Destroy("instance", 1),
        Destroy("window", 1) >>
cleanup(nFramebuffers, nViews) ==
  cleanupSwapChain(nFramebuffers, nViews)
  \o << Destroy("textureSampler", 1), Destroy("textureImageView", 1),
        Destroy("textureImage", 1), Destroy("textureImageMemory", 1),
        Destroy("graphicsPipeline", 1), Destroy("pipelineLayout", 1),
        Destroy("renderPass", 1) >>
  \o Concat([i \in 1 .. MAX_FRAMES_IN_FLIGHT |->
        << Destroy("uniformBuffers", i), Destroy("uniformBuffersMemory", i) >>])
  \o << Destroy("descriptorPool", 1), Destroy("descriptorSetLayout", 1),
        Destroy("indexBuffer", 1), Destroy("indexBufferMemory", 1),
        Destroy("vertexBuffer", 1), Destroy("vertexBufferMemory", 1) >>
  \o Concat([i \in 1 .. MAX_FRAMES_IN_FLIGHT |->
        << Destroy("imageAvailableSemaphores", i),
           Destroy("renderFinishedSemaphores", i),
           Destroy("inFlightFences", i) >>])
  \o << Destroy("commandPool", 1), Destroy("device", 1), Destroy("surface", 1),
        Destroy("instance", 1), Destroy("window", 1) >>

\* ------------------------------------------------------------------- state
VARIABLES
  pc,                 \* position of the CPU thread in main / run / drawFrame
  what,               \* e.what() of the exception in flight, "" when none
  logged,             \* what main wrote to std::cerr
  exitCode,           \* value main returned, "running" before it returns
  initLog,            \* creation steps initVulkan has called, in call order
  failedStep,         \* the creation step of initVulkan that threw, "" when none
  vertexInputState,   \* attribute descriptions the graphics pipeline was built with
  ignoredFailure,     \* a creation step of initVulkan got a non-success result
                      \* it did not test (kept until the first frame begins)
  handles,            \* each handle field: the state of the object in each slot
  invalidDestroy,     \* a destroy/free call was given a handle that is not live
  lostHandle,         \* a live handle was overwritten or dropped by a resize
  cleanupDone,        \* number of calls cleanup() has made
  currentFrame,       \* Application::currentFrame
  framebufferResized, \* Application::framebufferResized
  fence,              \* inFlightFences[f] is signalled
  inflight,           \* draw submissions of slot f the GPU has not finished
  presentPending,     \* presents queued on presentQueue whose wait on
                      \* renderFinishedSemaphores[slot] has not executed, oldest first
  imageIndex,         \* drawFrame's local imageIndex: << i >>, << >> when not set
  result,             \* drawFrame's local result: << r >>, << >> when not set
  rcCaller,           \* which call site of drawFrame is in recreateSwapChain
  rcZero,             \* recreateSwapChain's width == 0 || height == 0
  commandBuffers,     \* what commandBuffers[f] records: framebuffer, descriptor set
  frameSteps,         \* steps the running drawFrame call has performed
  presented,          \* image index this call gave vkQueuePresentKHR: << i >>
  cpuWroteBusySlot,   \* the CPU rewrote a slot's buffers while the GPU used them
  mappedWritten,      \* slot of uniformBuffersMapped the running drawFrame call
                      \* has written: << f >>, << >> when none
  fnCall,             \* the call of a selection function under examination:
                      \* its name and arguments
  fnReturn,           \* what that call returned or threw
  windowShouldClose,  \* the window's close flag
  minimised,          \* the window's framebuffer has width 0 or height 0
  events              \* window events queued for glfwPollEvents / glfwWaitEvents

vars ==
  << pc, what, logged, exitCode, initLog, failedStep, vertexInputState,
     ignoredFailure, handles, invalidDestroy,
     lostHandle, cleanupDone, currentFrame, framebufferResized, fence, inflight,
     presentPending,
     imageIndex, result, rcCaller, rcZero, commandBuffers, frameSteps, presented,
     cpuWroteBusySlot, mappedWritten, fnCall, fnReturn, windowShouldClose,
     minimised, events >>

\* ------------------------------------------------ effect of calls on handles
Objects ==
  [handles |-> handles, invalidDestroy |-> invalidDestroy, lostHandle |-> lostHandle]

IsLive(h, k, slot) == slot \in DOMAIN h[k] /\ h[k][slot] = "live"

AnyLive(h, k) == \E i \in DOMAIN h[k] : h[k][i] = "live"

\* every slot of the kinds in ks that is live becomes destroyed
FreeAll(h, ks) ==
  [k \in DOMAIN h |->
     IF k \in ks
       THEN [i \in DOMAIN h[k] |-> IF h[k][i] = "live" THEN "destroyed" ELSE h[k][i]]
       ELSE h[k]]

ApplyCall(s, c) ==
  CASE c.op = "create" ->
         [s EXCEPT !.handles[c.obj][c.slot] = "live",
                   !.lostHandle = @ \/ IsLive(s.handles, c.obj, c.slot)]
    [] c.op = "resize" ->
         [s EXCEPT !.handles[c.obj] =
                     [i \in 1 .. c.slot |-> IF i \in DOMAIN @ THEN @[i] ELSE "null"],
                   !.lostHandle =
                     @ \/ \E i \in DOMAIN s.handles[c.obj] :
                            i > c.slot /\ s.handles[c.obj][i] = "live"]
    [] c.op = "destroy" ->
         IF IsLive(s.handles, c.obj, c.slot)
           THEN [s EXCEPT !.handles =
                   FreeAll([@ EXCEPT ![c.obj][c.slot] = "destroyed"], Owned(c.obj))]
           ELSE [s EXCEPT !.invalidDestroy = TRUE]
    [] OTHER -> s

RECURSIVE Run(_, _)
Run(s, calls) ==
  IF calls = << >> THEN s ELSE Run(ApplyCall(s, Head(calls)), Tail(calls))

\* the calls of a function that run when its call number failAt throws
\* (failAt = 0: none throws)
Ran(calls, failAt) ==
  IF failAt = 0 THEN calls ELSE SubSeq(calls, 1, failAt - 1)

\* the places where a function can throw
FailPoints(calls) == {i \in 1 .. Len(calls) : calls[i].checked}

\* whether the calls include one whose result the code ignores
HasIgnoredResult(calls) ==
  \E i \in 1 .. Len(calls) : ~calls[i].checked /\ calls[i].op \in {"call"}

nImages == Len(handles["swapChainImages"])
nViews == Len(handles["swapChainImageViews"])
nFramebuffers == Len(handles["swapChainFramebuffers"])

\* ------------------------------------------------------------ initial state
\* no selection function is under examination
NoCall ==
  [fn |-> "none", availableFormats |-> << >>, availablePresentModes |-> << >>,
   typeFilter |-> 0, properties |-> 0, memoryTypes |-> << >>]
NoReturn == [done |-> FALSE, value |-> << >>, thrown |-> ""]

\* the members of Application and the locals of main after construction
ApplicationInit ==
  /\ pc = "initWindow"
  /\ what = ""
  /\ logged = ""
  /\ exitCode = "running"
  /\ initLog = << >>
  /\ failedStep = ""
  /\ vertexInputState = << >>
  /\ ignoredFailure = FALSE
  /\ handles = [k \in Kinds |-> IF k \in ScalarKinds THEN << "null" >> ELSE << >>]
  /\ invalidDestroy = FALSE
  /\ lostHandle = FALSE
  /\ cleanupDone = 0
  /\ currentFrame = 0
  /\ framebufferResized = FALSE
  /\ fence = [f \in Frames |-> FALSE]
  /\ inflight = [f \in Frames |-> 0]
  /\ presentPending = << >>
  /\ imageIndex = << >>
  /\ result = << >>
  /\ rcCaller = "none"
  /\ rcZero = FALSE
  /\ commandBuffers =
       [f \in Frames |-> [framebuffer |-> << >>, descriptorSet |-> << >>]]
  /\ frameSteps = << >>
  /\ presented = << >>
  /\ cpuWroteBusySlot = FALSE
  /\ mappedWritten = << >>
  /\ windowShouldClose = FALSE
  /\ minimised = FALSE
  /\ events = {}

Init ==
  /\ ApplicationInit
  /\ fnCall = NoCall
  /\ fnReturn = NoReturn

fnVars == << fnCall, fnReturn >>
initVars == << initLog, failedStep, vertexInputState >>
objVars == << handles, invalidDestroy, lostHandle >>
envVars == << windowShouldClose, minimised, events >>
gpuVars == << fence, inflight, presentPending >>
mainVars == << what, logged, exitCode >>
localVars == << imageIndex, result, presented, frameSteps >>
rcVars == << rcCaller, rcZero >>

\* a std::runtime_error(msg) leaves the function: the stack unwinds to main
ThrowSwallowed(msg) == pc' = pc /\ what' = msg
Throw(msg) == pc' = "unwinding" /\ what' = msg

SetObjects(s) ==
  /\ handles' = s.handles
  /\ invalidDestroy' = s.invalidDestroy
  /\ lostHandle' = s.lostHandle

\* --------------------------------------------------------------- run / main
RunInitWindow ==
  /\ pc = "initWindow"
  /\ SetObjects(Run(Objects, initWindow))
  /\ pc' = "initVulkan"
  /\ UNCHANGED << fnVars, mainVars, initVars, ignoredFailure, cleanupDone, currentFrame,
                  framebufferResized, gpuVars, localVars, rcVars, commandBuffers,
                  cpuWroteBusySlot, mappedWritten, envVars >>

\* one creation step of initVulkan: the step after those already called.
\* failAt: the checked call that fails (0: none); ignored: a call whose result
\* the code does not test returned a non-success result
InitVulkanStep ==
  /\ pc = "initVulkan"
  /\ LET step == initVulkan[Len(initLog) + 1] IN
     \E n \in (IF step = "createSwapChain" THEN ImageCounts ELSE {MinImages}) :
       LET calls == StepCalls(step, n, nImages, nViews) IN
       \E failAt \in {0} \cup FailPoints(calls), ignored \in BOOLEAN :
         /\ ignored => HasIgnoredResult(Ran(calls, failAt))
         /\ SetObjects(Run(Objects, Ran(calls, failAt)))
         /\ initLog' = Append(initLog, step)
         /\ ignoredFailure' = (ignoredFailure \/ ignored)
         /\ failedStep' = IF failAt # 0 THEN step ELSE failedStep
         /\ vertexInputState' =
              IF step = "createGraphicsPipeline" /\ failAt = 0
                THEN getAttributeDescriptions ELSE vertexInputState
         /\ IF failAt # 0
              THEN Throw(calls[failAt].msg) /\ UNCHANGED fence
              ELSE /\ what' = what
                   /\ pc' = IF Len(initLog) + 1 = Len(initVulkan)
                              THEN "mainLoop" ELSE "initVulkan"
                   \* VK_FENCE_CREATE_SIGNALED_BIT
                   /\ fence' = IF step = "createSyncObjects"
                                 THEN [f \in Frames |-> TRUE] ELSE fence
  /\ UNCHANGED << fnVars, logged, exitCode, cleanupDone, currentFrame, framebufferResized,
                  inflight, presentPending, localVars, rcVars, commandBuffers,
                  cpuWroteBusySlot, mappedWritten, envVars >>

\* app->framebufferResized = true
framebufferResizeCallback == TRUE

\* glfwPollEvents / glfwWaitEvents hand the queued events to the callbacks
ProcessEvents ==
  /\ framebufferResized' =
       IF "resize" \in events THEN framebufferResizeCallback ELSE framebufferResized
  /\ windowShouldClose' = (windowShouldClose \/ "close" \in events)
  /\ events' = {}
  /\ UNCHANGED minimised

\* while (!glfwWindowShouldClose(window)) { glfwPollEvents(); drawFrame(); }
mainLoop ==
  /\ pc = "mainLoop"
  /\ ~windowShouldClose
  /\ ProcessEvents
  /\ pc' = "vkWaitForFences"
  /\ frameSteps' = << >>
  /\ mappedWritten' = << >>
  /\ ignoredFailure' = FALSE
  /\ UNCHANGED << fnVars, mainVars, initVars, objVars, cleanupDone,
                  currentFrame, gpuVars, imageIndex, result, presented, rcVars,
                  commandBuffers, cpuWroteBusySlot >>

mainLoopExit ==
  /\ pc = "mainLoop"
  /\ windowShouldClose
  /\ pc' = "cleanup"
  /\ UNCHANGED << fnVars, mainVars, initVars, ignoredFailure, objVars, cleanupDone,
                  currentFrame, framebufferResized, gpuVars, localVars, rcVars,
                  commandBuffers, cpuWroteBusySlot, mappedWritten, envVars >>

\* ---------------------------------------------------------------- drawFrame
\* vkWaitForFences(device, 1, &inFlightFences[f], VK_TRUE, UINT64_MAX) returns
FenceWaitNoWait(f) == TRUE
FenceWaitReturns(f) == fence[f]

\* the wait with a timeout of 0: it returns whatever the state of the fence
vkWaitForFencesNoTimeout ==
  /\ pc = "vkWaitForFences"
  /\ pc' = "vkResetFences"
  /\ frameSteps' = Append(frameSteps, "wait")
  /\ UNCHANGED << fnVars, mainVars, initVars, ignoredFailure, objVars, cleanupDone,
                  currentFrame, framebufferResized, gpuVars, imageIndex, result,
                  presented, rcVars, commandBuffers, cpuWroteBusySlot, mappedWritten, envVars >>

vkWaitForFences ==
  /\ pc = "vkWaitForFences"
  /\ FenceWaitReturns(currentFrame)
  /\ pc' = "vkResetFences"
  /\ frameSteps' = Append(frameSteps, "wait")
  /\ UNCHANGED << fnVars, mainVars, initVars, ignoredFailure, objVars, cleanupDone,
                  currentFrame, framebufferResized, gpuVars, imageIndex, result,
                  presented, rcVars, commandBuffers, cpuWroteBusySlot, mappedWritten, envVars >>

\* the vkResetFences before the acquire
vkResetFences ==
  /\ pc = "vkResetFences"
  /\ fence' = [fence EXCEPT ![currentFrame] = FALSE]
  /\ pc' = "vkAcquireNextImageKHR"
  /\ UNCHANGED << fnVars, mainVars, initVars, ignoredFailure, objVars, cleanupDone,
                  currentFrame, framebufferResized, inflight, presentPending,
                  localVars, rcVars, commandBuffers, cpuWroteBusySlot, mappedWritten, envVars >>

\* the results with which the driver hands out an image
AcquireUsable(r) == r = "VK_SUCCESS" \/ r = "VK_SUBOPTIMAL_KHR"

\* else if (result != VK_SUCCESS && result != VK_SUBOPTIMAL_KHR)
AcquireThrowsOnErrorCodes(r) == VkResultValue(r) < 0
AcquireThrows(r) == r # "VK_SUCCESS" /\ r # "VK_SUBOPTIMAL_KHR"

\* the presentation engine hands out an image only when no present of that
\* image is still queued
ImageAvailable(idx) ==
  \A i \in 1 .. Len(presentPending) : presentPending[i].image # << idx >>

vkAcquireNextImageKHR ==
  /\ pc = "vkAcquireNextImageKHR"
  /\ \E r \in AcquireResults, idx \in 0 .. (nImages - 1) :
       /\ ~AcquireUsable(r) => idx = 0
       /\ AcquireUsable(r) => ImageAvailable(idx)
       /\ result' = << r >>
       /\ imageIndex' = IF AcquireUsable(r) THEN << idx >> ELSE imageIndex
       /\ frameSteps' = Append(frameSteps, "acquire")
       /\ IF r = "VK_ERROR_OUT_OF_DATE_KHR"
            THEN pc' = "recreateSwapChain" /\ rcCaller' = "acquire" /\ what' = what
            ELSE IF AcquireThrows(r)
              THEN Throw("failed to acquire swap chain image!") /\ UNCHANGED rcCaller
              ELSE pc' = "updateUniformBuffer" /\ what' = what /\ UNCHANGED rcCaller
  /\ UNCHANGED << fnVars, logged, exitCode, initVars, ignoredFailure, objVars, cleanupDone,
                  currentFrame, framebufferResized, gpuVars, presented, rcZero,
                  commandBuffers, cpuWroteBusySlot, mappedWritten, envVars >>

\* memcpy(uniformBuffersMapped[currentImage], &ubo, sizeof(ubo))
updateUniformBuffer ==
  /\ pc = "updateUniformBuffer"
  /\ cpuWroteBusySlot' = (cpuWroteBusySlot \/ inflight[currentFrame] > 0)
  \* updateUniformBuffer(currentFrame)
  /\ mappedWritten' = << currentFrame >>
  /\ pc' = "vkResetFences2"
  /\ UNCHANGED << fnVars, mainVars, initVars, ignoredFailure, objVars, cleanupDone,
                  currentFrame, framebufferResized, gpuVars, localVars, rcVars,
                  commandBuffers, envVars >>

\* the vkResetFences before the recording
vkResetFences2 ==
  /\ pc = "vkResetFences2"
  /\ fence' = [fence EXCEPT ![currentFrame] = FALSE]
  /\ pc' = "recordCommandBuffer"
  /\ UNCHANGED << fnVars, mainVars, initVars, ignoredFailure, objVars, cleanupDone,
                  currentFrame, framebufferResized, inflight, presentPending,
                  localVars, rcVars, commandBuffers, cpuWroteBusySlot, mappedWritten, envVars >>

\* vkResetCommandBuffer(commandBuffers[f], 0); recordCommandBuffer(commandBuffers[f], imageIndex)
recordCommandBuffer ==
  /\ pc = "recordCommandBuffer"
  /\ cpuWroteBusySlot' = (cpuWroteBusySlot \/ inflight[currentFrame] > 0)
  /\ commandBuffers' =
       [commandBuffers EXCEPT ![currentFrame] =
          [framebuffer |-> imageIndex, descriptorSet |-> << currentFrame >>]]
  /\ frameSteps' = Append(frameSteps, "record")
  /\ \E ok \in BOOLEAN :
       IF ok THEN pc' = "vkQueueSubmit" /\ what' = what
             ELSE Throw("failed to record command buffer!")
  /\ UNCHANGED << fnVars, logged, exitCode, initVars, ignoredFailure, objVars, cleanupDone,
                  currentFrame, framebufferResized, gpuVars, imageIndex, result,
                  presented, rcVars, mappedWritten, envVars >>

vkQueueSubmit ==
  /\ pc = "vkQueueSubmit"
  /\ frameSteps' = Append(frameSteps, "submit")
  /\ \E r \in SubmitResults :
       IF r # "VK_SUCCESS"
         THEN Throw("failed to submit draw command buffer!") /\ UNCHANGED inflight
         ELSE /\ inflight' = [inflight EXCEPT ![currentFrame] = @ + 1]
              /\ pc' = "vkQueuePresentKHR"
              /\ what' = what
  /\ UNCHANGED << fnVars, logged, exitCode, initVars, ignoredFailure, objVars, cleanupDone,
                  currentFrame, framebufferResized, fence, presentPending,
                  imageIndex, result, presented, rcVars, commandBuffers,
                  cpuWroteBusySlot, mappedWritten, envVars >>

\* result == VK_ERROR_OUT_OF_DATE_KHR || result == VK_SUBOPTIMAL_KHR || result == framebufferResized
PresentRecreatesNoOutOfDate(r, resized) ==
  r = "VK_SUBOPTIMAL_KHR" \/ VkResultValue(r) = BoolToInt(resized)
PresentRecreates(r, resized) ==
  \/ r = "VK_ERROR_OUT_OF_DATE_KHR"
  \/ r = "VK_SUBOPTIMAL_KHR"
  \/ VkResultValue(r) = BoolToInt(resized)

\* else if (result != VK_SUCCESS && result != VK_SUBOPTIMAL_KHR)
PresentThrows(r) == r # "VK_SUCCESS" /\ r # "VK_SUBOPTIMAL_KHR"

vkQueuePresentKHR ==
  /\ pc = "vkQueuePresentKHR"
  /\ frameSteps' = Append(frameSteps, "present")
  /\ presented' = imageIndex
  \* presentInfo.pWaitSemaphores = signalSemaphores: the wait is queued whatever
  \* the result
  /\ presentPending' =
       Append(presentPending, [slot |-> currentFrame, image |-> imageIndex])
  /\ \E r \in PresentResults :
       /\ result' = << r >>
       /\ IF PresentRecreates(r, framebufferResized)
            THEN /\ framebufferResized' = FALSE
                 /\ pc' = "recreateSwapChain"
                 /\ rcCaller' = "present"
                 /\ what' = what
            ELSE IF PresentThrows(r)
              THEN /\ Throw("failed to acquire swap chain image!")
                   /\ UNCHANGED << framebufferResized, rcCaller >>
              ELSE /\ pc' = "advanceFrame"
                   /\ what' = what
                   /\ UNCHANGED << framebufferResized, rcCaller >>
  /\ UNCHANGED << fnVars, logged, exitCode, initVars, ignoredFailure, objVars, cleanupDone,
                  currentFrame, fence, inflight, imageIndex, rcZero,
                  commandBuffers, cpuWroteBusySlot, mappedWritten, envVars >>

\* a drawFrame that returns from line 1642 with currentFrame as it was
advanceFrameNoAdvance ==
  /\ pc = "advanceFrame"
  /\ pc' = "mainLoop"
  /\ imageIndex' = << >>
  /\ result' = << >>
  /\ presented' = << >>
  /\ frameSteps' = << >>
  /\ rcCaller' = "none"
  /\ UNCHANGED << fnVars, mainVars, initVars, ignoredFailure, objVars, cleanupDone,
                  currentFrame, framebufferResized, gpuVars, rcZero,
                  commandBuffers, cpuWroteBusySlot, mappedWritten, envVars >>

\* currentFrame = (currentFrame + 1) % MAX_FRAMES_IN_FLIGHT; drawFrame returns
advanceFrame ==
  /\ pc = "advanceFrame"
  /\ currentFrame' = (currentFrame + 1) % MAX_FRAMES_IN_FLIGHT
  /\ pc' = "mainLoop"
  /\ imageIndex' = << >>
  /\ result' = << >>
  /\ presented' = << >>
  /\ frameSteps' = << >>
  /\ rcCaller' = "none"
  /\ UNCHANGED << fnVars, mainVars, initVars, ignoredFailure, objVars, cleanupDone,
                  framebufferResized, gpuVars, rcZero, commandBuffers,
                  cpuWroteBusySlot, mappedWritten, envVars >>

\* -------------------------------------------------------- recreateSwapChain
\* a drawFrame that goes on to line 1642 after either call of recreateSwapChain
ReturnFromRecreateNoReturn ==
  /\ pc' = "advanceFrame"
  /\ UNCHANGED << fnVars, localVars, rcCaller >>

\* drawFrame returns from the call site of recreateSwapChain
ReturnFromRecreate ==
  IF rcCaller = "acquire"
    THEN \* recreateSwapChain(); return;
         /\ pc' = "mainLoop"
         /\ imageIndex' = << >>
         /\ result' = << >>
         /\ frameSteps' = << >>
         /\ rcCaller' = "none"
         /\ UNCHANGED presented
    ELSE /\ pc' = "advanceFrame"
         /\ UNCHANGED << localVars, rcCaller >>

\* int width = 0, height = 0; glfwGetFramebufferSize(window, &width, &height);
\* and the first test of the while condition
recreateSwapChain ==
  /\ pc = "recreateSwapChain"
  /\ rcZero' = minimised
  /\ pc' = IF minimised THEN "glfwGetFramebufferSize" ELSE "vkDeviceWaitIdle"
  /\ UNCHANGED << fnVars, mainVars, initVars, ignoredFailure, objVars, cleanupDone,
                  currentFrame, framebufferResized, gpuVars, localVars, rcCaller,
                  commandBuffers, cpuWroteBusySlot, mappedWritten, envVars >>

\* the glfwGetFramebufferSize in the body of the while loop
glfwGetFramebufferSize ==
  /\ pc = "glfwGetFramebufferSize"
  /\ rcZero' = minimised
  /\ pc' = "glfwWaitEvents"
  /\ UNCHANGED << fnVars, mainVars, initVars, ignoredFailure, objVars, cleanupDone,
                  currentFrame, framebufferResized, gpuVars, localVars, rcCaller,
                  commandBuffers, cpuWroteBusySlot, mappedWritten, envVars >>

\* glfwWaitEvents blocks until an event is queued; then the while condition
\* tests the size read before the wait
glfwWaitEvents ==
  /\ pc = "glfwWaitEvents"
  /\ events # {}
  /\ ProcessEvents
  /\ pc' = IF rcZero THEN "glfwGetFramebufferSize" ELSE "vkDeviceWaitIdle"
  /\ UNCHANGED << fnVars, mainVars, initVars, ignoredFailure, objVars, cleanupDone,
                  currentFrame, gpuVars, localVars, rcVars, commandBuffers,
                  cpuWroteBusySlot, mappedWritten >>

\* vkDeviceWaitIdle returns when no submission is pending
DeviceIdleNoWait == TRUE
DeviceIdle == (\A f \in Frames : inflight[f] = 0) /\ presentPending = << >>

vkDeviceWaitIdle ==
  /\ pc = "vkDeviceWaitIdle"
  /\ DeviceIdle
  /\ pc' = "cleanupSwapChain"
  /\ UNCHANGED << fnVars, mainVars, initVars, ignoredFailure, objVars, cleanupDone,
                  currentFrame, framebufferResized, gpuVars, localVars, rcVars,
                  commandBuffers, cpuWroteBusySlot, mappedWritten, envVars >>

RecreateCleanupSwapChain ==
  /\ pc = "cleanupSwapChain"
  /\ SetObjects(Run(Objects, cleanupSwapChain(nFramebuffers, nViews)))
  /\ pc' = "createSwapChain"
  /\ UNCHANGED << fnVars, mainVars, initVars, ignoredFailure, cleanupDone, currentFrame,
                  framebufferResized, gpuVars, localVars, rcVars, commandBuffers,
                  cpuWroteBusySlot, mappedWritten, envVars >>

\* the three creation steps recreateSwapChain calls after cleanupSwapChain
recreateSteps == << "createSwapChain", "createImageViews", "createFramebuffers" >>

RecreateStep ==
  /\ \E j \in 1 .. Len(recreateSteps) :
       /\ pc = recreateSteps[j]
       /\ \E n \in (IF pc = "createSwapChain" THEN ImageCounts ELSE {MinImages}) :
            LET calls == StepCalls(pc, n, nImages, nViews) IN
            \E failAt \in {0} \cup FailPoints(calls) :
              /\ SetObjects(Run(Objects, Ran(calls, failAt)))
              /\ IF failAt # 0
                   THEN Throw(calls[failAt].msg) /\ UNCHANGED << localVars, rcCaller >>
                   ELSE /\ what' = what
                        /\ IF j < Len(recreateSteps)
                             THEN /\ pc' = recreateSteps[j + 1]
                                  /\ UNCHANGED << localVars, rcCaller >>
                             ELSE ReturnFromRecreate
  /\ UNCHANGED << fnVars, logged, exitCode, initVars, ignoredFailure, cleanupDone,
                  currentFrame, framebufferResized, gpuVars, rcZero, commandBuffers,
                  cpuWroteBusySlot, mappedWritten, envVars >>

\* ------------------------------------------------------------------ cleanup
\* the next call of cleanup()
CleanupCall ==
  /\ pc = "cleanup"
  /\ LET calls == cleanup(nFramebuffers, nViews) IN
       /\ SetObjects(ApplyCall(Objects, calls[cleanupDone + 1]))
       /\ cleanupDone' = cleanupDone + 1
       /\ pc' = IF cleanupDone + 1 = Len(calls) THEN "returned" ELSE "cleanup"
  /\ UNCHANGED << fnVars, mainVars, initVars, ignoredFailure, currentFrame,
                  framebufferResized, gpuVars, localVars, rcVars, commandBuffers,
                  cpuWroteBusySlot, mappedWritten, envVars >>

\* run() returned: return EXIT_SUCCESS
MainReturn ==
  /\ pc = "returned"
  /\ exitCode' = "EXIT_SUCCESS"
  /\ pc' = "exited"
  /\ UNCHANGED << fnVars, what, logged, initVars, ignoredFailure, objVars, cleanupDone,
                  currentFrame, framebufferResized, gpuVars, localVars, rcVars,
                  commandBuffers, cpuWroteBusySlot, mappedWritten, envVars >>

\* catch (const std::exception& e) { std::cerr << e.what(); return EXIT_FAILURE; }
MainCatch ==
  /\ pc = "unwinding"
  /\ logged' = what
  /\ exitCode' = "EXIT_FAILURE"
  /\ pc' = "exited"
  /\ UNCHANGED << fnVars, what, initVars, ignoredFailure, objVars, cleanupDone,
                  currentFrame, framebufferResized, gpuVars, localVars, rcVars,
                  commandBuffers, cpuWroteBusySlot, mappedWritten, envVars >>

\* -------------------------------------------------------------- environment
\* the GPU finishes a draw submission of slot f and signals its fence
GpuComplete ==
  /\ pc # "exited"
  /\ \E f \in Frames :
       /\ inflight[f] > 0
       /\ inflight' = [inflight EXCEPT ![f] = @ - 1]
       /\ fence' = [fence EXCEPT ![f] = TRUE]
  /\ UNCHANGED << fnVars, pc, mainVars, initVars, ignoredFailure, objVars, cleanupDone,
                  currentFrame, framebufferResized, presentPending, localVars,
                  rcVars, commandBuffers, cpuWroteBusySlot, mappedWritten, envVars >>

\* presentQueue executes the semaphore wait of its oldest present: the
\* submission that signals renderFinishedSemaphores[slot] has finished
PresentComplete ==
  /\ pc # "exited"
  /\ presentPending # << >>
  /\ inflight[Head(presentPending).slot] = 0
  /\ presentPending' = Tail(presentPending)
  /\ UNCHANGED << fnVars, pc, mainVars, initVars, ignoredFailure, objVars, cleanupDone,
                  currentFrame, framebufferResized, fence, inflight, localVars,
                  rcVars, commandBuffers, cpuWroteBusySlot, mappedWritten, envVars >>

\* the window exists and the program is at a call that reads its events or
\* its size (glfwPollEvents, glfwGetFramebufferSize, glfwWaitEvents): what the
\* window did since the last such call is seen there. With the close flag set
\* mainLoop ends without polling.
WindowOpen ==
  /\ \/ pc = "mainLoop" /\ ~windowShouldClose
     \/ pc \in {"recreateSwapChain", "glfwGetFramebufferSize", "glfwWaitEvents"}
  /\ IsLive(handles, "window", 1)

\* the user resizes, minimises or restores the window
WindowResize ==
  /\ WindowOpen
  /\ \E z \in BOOLEAN : minimised' = z
  /\ events' = events \cup {"resize"}
  /\ UNCHANGED << fnVars, pc, mainVars, initVars, ignoredFailure, objVars, cleanupDone,
                  currentFrame, framebufferResized, gpuVars, localVars, rcVars,
                  commandBuffers, cpuWroteBusySlot, mappedWritten, windowShouldClose >>

\* the user asks the window to close
WindowClose ==
  /\ WindowOpen
  /\ events' = events \cup {"close"}
  /\ UNCHANGED << fnVars, pc, mainVars, initVars, ignoredFailure, objVars, cleanupDone,
                  currentFrame, framebufferResized, gpuVars, localVars, rcVars,
                  commandBuffers, cpuWroteBusySlot, mappedWritten, windowShouldClose, minimised >>

\* the handles (kind, slot) a draw submission of frame slot f references:
\* those recordCommandBuffer put into commandBuffers[f] and those of the
\* VkSubmitInfo and the fence given to vkQueueSubmit
SubmissionUses(f) ==
  {<< "renderPass", 1 >>, << "graphicsPipeline", 1 >>, << "pipelineLayout", 1 >>,
   << "vertexBuffer", 1 >>, << "indexBuffer", 1 >>, << "commandPool", 1 >>,
   << "swapChain", 1 >>,
   << "commandBuffers", f + 1 >>, << "descriptorSets", f + 1 >>,
   << "uniformBuffers", f + 1 >>,
   << "imageAvailableSemaphores", f + 1 >>,
   << "renderFinishedSemaphores", f + 1 >>, << "inFlightFences", f + 1 >>}
  \cup {<< "swapChainFramebuffers", commandBuffers[f].framebuffer[i] + 1 >> :
          i \in DOMAIN commandBuffers[f].framebuffer}
  \cup {<< "swapChainImageViews", commandBuffers[f].framebuffer[i] + 1 >> :
          i \in DOMAIN commandBuffers[f].framebuffer}

\* the handles a queued present references: presentInfo.pWaitSemaphores and
\* presentInfo.pSwapchains
PresentUses(p) ==
  {<< "renderFinishedSemaphores", p.slot + 1 >>, << "swapChain", 1 >>}

\* the handles pending GPU work references
PendingUses ==
  UNION {SubmissionUses(f) : f \in {g \in Frames : inflight[g] > 0}}
  \cup UNION {PresentUses(presentPending[i]) : i \in DOMAIN presentPending}

Next ==
  \/ RunInitWindow
  \/ InitVulkanStep
  \/ mainLoop
  \/ mainLoopExit
  \/ vkWaitForFences
  \/ vkResetFences
  \/ vkAcquireNextImageKHR
  \/ updateUniformBuffer
  \/ vkResetFences2
  \/ recordCommandBuffer
  \/ vkQueueSubmit
  \/ vkQueuePresentKHR
  \/ advanceFrame
  \/ recreateSwapChain
  \/ glfwGetFramebufferSize
  \/ glfwWaitEvents
  \/ vkDeviceWaitIdle
  \/ RecreateCleanupSwapChain
  \/ RecreateStep
  \/ CleanupCall
  \/ MainReturn
  \/ MainCatch
  \/ GpuComplete
  \/ PresentComplete
  \/ WindowResize
  \/ WindowClose

Spec == Init /\ [][Next]_vars

\* ------------------------------------------------------ selection functions
\* a & b on unsigned integers
RECURSIVE BitAnd(_, _)
BitAnd(a, b) ==
  IF a = 0 \/ b = 0
    THEN 0
    ELSE (a % 2) * (b % 2) + 2 * BitAnd(a \div 2, b \div 2)

\* 1 << i
RECURSIVE ShiftLeft1(_)
ShiftLeft1(i) == IF i = 0 THEN 1 ELSE 2 * ShiftLeft1(i - 1)

\* a memory type test that accepts any one of the requested property bits
MemoryTypeSuitableAnyBit(i, typeFilter, properties, memoryTypes) ==
  /\ BitAnd(typeFilter, ShiftLeft1(i)) # 0
  /\ BitAnd(memoryTypes[i + 1], properties) # 0

\* (typeFilter & (1 << i)) &&
\* (memProperties.memoryTypes[i].propertyFlags & properties) == properties
MemoryTypeSuitable(i, typeFilter, properties, memoryTypes) ==
  /\ BitAnd(typeFilter, ShiftLeft1(i)) # 0
  /\ BitAnd(memoryTypes[i + 1], properties) = properties

\* the for loop of findMemoryType from index i on, and the throw after it;
\* memoryTypes: the first memoryTypeCount entries of memProperties.memoryTypes
RECURSIVE findMemoryTypeFrom(_, _, _, _)
findMemoryTypeFrom(i, typeFilter, properties, memoryTypes) ==
  IF i < Len(memoryTypes)
    THEN IF MemoryTypeSuitable(i, typeFilter, properties, memoryTypes)
           THEN [done |-> TRUE, value |-> << i >>, thrown |-> ""]
           ELSE findMemoryTypeFrom(i + 1, typeFilter, properties, memoryTypes)
    ELSE [done |-> TRUE, value |-> << >>,
          thrown |-> "failed to find suitable memory type!"]

findMemoryType(typeFilter, properties, memoryTypes) ==
  findMemoryTypeFrom(0, typeFilter, properties, memoryTypes)

\* a format test that looks at the format only
IsPreferredFormatAnyColorSpace(availableFormat) ==
  availableFormat.format = "VK_FORMAT_B8G8R8A8_SRGB"

\* availableFormat.format == VK_FORMAT_B8G8R8A8_SRGB &&
\* availableFormat.colorSpace == VK_COLOR_SPACE_SRGB_NONLINEAR_KHR
IsPreferredFormat(availableFormat) ==
  /\ availableFormat.format = "VK_FORMAT_B8G8R8A8_SRGB"
  /\ availableFormat.colorSpace = "VK_COLOR_SPACE_SRGB_NONLINEAR_KHR"

\* the range-for of chooseSwapSurfaceFormat from element i on, and the
\* return availableFormats[0] after it
RECURSIVE chooseSwapSurfaceFormatFrom(_, _)
chooseSwapSurfaceFormatFrom(i, availableFormats) ==
  IF i <= Len(availableFormats)
    THEN IF IsPreferredFormat(availableFormats[i])
           THEN availableFormats[i]
           ELSE chooseSwapSurfaceFormatFrom(i + 1, availableFormats)
    ELSE availableFormats[1]

chooseSwapSurfaceFormat(availableFormats) ==
  chooseSwapSurfaceFormatFrom(1, availableFormats)

\* the range-for of chooseSwapPresentMode from element i on, and the return
\* after it
RECURSIVE chooseSwapPresentModeFrom(_, _)
chooseSwapPresentModeFrom(i, availablePresentModes) ==
  IF i <= Len(availablePresentModes)
    THEN IF availablePresentModes[i] = "VK_PRESENT_MODE_MAILBOX_KHR"
           THEN availablePresentModes[i]
           ELSE chooseSwapPresentModeFrom(i + 1, availablePresentModes)
    ELSE "VK_PRESENT_MODE_FIFO_KHR"

\* a chooseSwapPresentMode that falls back to the first available mode
chooseSwapPresentModeFirst(availablePresentModes) ==
  IF \E i \in DOMAIN availablePresentModes :
       availablePresentModes[i] = "VK_PRESENT_MODE_MAILBOX_KHR"
    THEN "VK_PRESENT_MODE_MAILBOX_KHR"
    ELSE availablePresentModes[1]

chooseSwapPresentMode(availablePresentModes) ==
  chooseSwapPresentModeFrom(1, availablePresentModes)

\* sequences of 1 .. n different elements of S
DistinctSeqs(S, n) ==
  {q \in UNION {[1 .. k -> S] : k \in 1 .. n} :
     \A i, j \in DOMAIN q : q[i] = q[j] => i = j}

\* surface formats and present modes a surface may report
SurfaceFormats ==
  [format : {"VK_FORMAT_B8G8R8A8_SRGB", "VK_FORMAT_B8G8R8A8_UNORM"},
   colorSpace : {"VK_COLOR_SPACE_SRGB_NONLINEAR_KHR",
                 "VK_COLOR_SPACE_DISPLAY_P3_NONLINEAR_EXT"}]
PresentModes ==
  {"VK_PRESENT_MODE_IMMEDIATE_KHR", "VK_PRESENT_MODE_MAILBOX_KHR",
   "VK_PRESENT_MODE_FIFO_KHR", "VK_PRESENT_MODE_FIFO_RELAXED_KHR"}

\* values of VkMemoryPropertyFlags, and of a memoryTypeBits mask
PropertyFlags == 0 .. (ShiftLeft1(PropertyFlagBits) - 1)
TypeFilters == 0 .. (ShiftLeft1(MaxMemoryTypes) - 1)

\* the calls examined: querySwapChainSupport gives createSwapChain non-empty
\* lists (isDeviceSuitable), the physical device has at least one memory type
FnCalls ==
  {[NoCall EXCEPT !.fn = "chooseSwapSurfaceFormat", !.availableFormats = q] :
     q \in DistinctSeqs(SurfaceFormats, MaxFormats)}
  \cup {[NoCall EXCEPT !.fn = "chooseSwapPresentMode", !.availablePresentModes = q] :
          q \in DistinctSeqs(PresentModes, MaxModes)}
  \cup {[NoCall EXCEPT !.fn = "findMemoryType", !.typeFilter = t,
                       !.properties = pr, !.memoryTypes = q] :
          t \in TypeFilters, pr \in PropertyFlags,
          q \in UNION {[1 .. k -> PropertyFlags] : k \in 1 .. MaxMemoryTypes}}

applicationVars ==
  << pc, mainVars, initVars, ignoredFailure, objVars, cleanupDone, currentFrame,
     framebufferResized, gpuVars, localVars, rcVars, commandBuffers,
     cpuWroteBusySlot, mappedWritten, envVars >>

\* createSwapChain: surfaceFormat = chooseSwapSurfaceFormat(swapChainSupport.formats)
CallChooseSwapSurfaceFormat ==
  /\ fnCall.fn = "chooseSwapSurfaceFormat"
  /\ ~fnReturn.done
  /\ fnReturn' = [done |-> TRUE, thrown |-> "",
                  value |-> << chooseSwapSurfaceFormat(fnCall.availableFormats) >>]
  /\ UNCHANGED << fnCall, applicationVars >>

\* createSwapChain: presentMode = chooseSwapPresentMode(swapChainSupport.presentModes)
CallChooseSwapPresentMode ==
  /\ fnCall.fn = "chooseSwapPresentMode"
  /\ ~fnReturn.done
  /\ fnReturn' = [done |-> TRUE, thrown |-> "",
                  value |-> << chooseSwapPresentMode(fnCall.availablePresentModes) >>]
  /\ UNCHANGED << fnCall, applicationVars >>

\* createBuffer / createImage: allocInfo.memoryTypeIndex = findMemoryType(...)
CallFindMemoryType ==
  /\ fnCall.fn = "findMemoryType"
  /\ ~fnReturn.done
  /\ fnReturn' =
       findMemoryType(fnCall.typeFilter, fnCall.properties, fnCall.memoryTypes)
  /\ UNCHANGED << fnCall, applicationVars >>

FnInit ==
  /\ ApplicationInit
  /\ fnCall \in FnCalls
  /\ fnReturn = NoReturn

FnNext ==
  \/ CallChooseSwapSurfaceFormat
  \/ CallChooseSwapPresentMode
  \/ CallFindMemoryType

FnSpec == FnInit /\ [][FnNext]_vars


\* ================================================================ properties
IsPrefix(s, t) == Len(s) <= Len(t) /\ \A i \in 1 .. Len(s) : s[i] = t[i]

\* main has not caught an exception and none is in flight
NoException == pc \notin {"unwinding", "exited"}

\* the CPU is between the fence wait of drawFrame and the submission
WritingSlot == pc \in {"updateUniformBuffer", "vkResetFences2", "recordCommandBuffer"}

\* C1: drawFrame rewrites commandBuffers[f] and the uniform buffer of slot f
\* only when the GPU has finished every earlier submission of slot f, after
\* the wait on inFlightFences[f] returned.
C1_SlotRewrittenOnlyWhenIdle ==
  /\ ~cpuWroteBusySlot
  /\ WritingSlot =>
       /\ inflight[currentFrame] = 0
       /\ frameSteps # << >> /\ Head(frameSteps) = "wait"

\* slot 0 is about to be re-recorded while the submission of slot 1 is running
C1_Witness ==
  /\ pc = "recordCommandBuffer"
  /\ currentFrame = 0
  /\ commandBuffers[0].framebuffer # << >>
  /\ inflight[1] > 0

\* the order of the steps of a drawFrame call that reaches its last statement
DrawFrameOrder == << "wait", "acquire", "record", "submit", "present" >>

\* C2: a drawFrame call performs wait, acquire, record, submit, present in
\* this order, and the image it presents is the one it acquired, recorded
\* and submitted in the same call.
C2_DrawFrameStepOrder ==
  /\ IsPrefix(frameSteps, DrawFrameOrder)
  /\ pc = "advanceFrame" => frameSteps = DrawFrameOrder
  /\ frameSteps = DrawFrameOrder =>
       /\ imageIndex # << >>
       /\ presented = imageIndex
       /\ commandBuffers[currentFrame].framebuffer = imageIndex

\* a drawFrame call is at its last statement without a swapchain recreation
C2_Witness ==
  /\ pc = "advanceFrame"
  /\ frameSteps = DrawFrameOrder
  /\ rcCaller = "none"
  /\ presented = << 1 >>

\* the creation steps the order of the specification names
ClaimedInitOrder ==
  << "createInstance", "createSurface", "pickPhysicalDevice", "createLogicalDevice",
     "createSwapChain", "createRenderPass", "createGraphicsPipeline",
     "createVertexBuffer", "createIndexBuffer", "createUniformBuffers",
     "createDescriptorSets", "createSyncObjects" >>

InClaimedOrder(step) == \E i \in 1 .. Len(ClaimedInitOrder) : ClaimedInitOrder[i] = step

\* C3: initVulkan calls no creation step twice, calls the named steps in the
\* order instance, surface, physical device, logical device, swapchain, render
\* pass, pipeline, buffers, descriptor sets, sync objects, and has called all
\* of them when the first drawFrame starts.
C3_InitOrder ==
  /\ Cardinality({initLog[i] : i \in 1 .. Len(initLog)}) = Len(initLog)
  /\ IsPrefix(SelectSeq(initLog, InClaimedOrder), ClaimedInitOrder)
  /\ (pc \notin {"initWindow", "initVulkan"} /\ failedStep = "") =>
       /\ Len(initLog) = 21
       /\ SelectSeq(initLog, InClaimedOrder) = ClaimedInitOrder

\* the first drawFrame is about to start
C3_Witness ==
  /\ pc = "vkWaitForFences"
  /\ SelectSeq(initLog, InClaimedOrder) = ClaimedInitOrder
  /\ inflight = [f \in Frames |-> 0]
  /\ currentFrame = 0

\* C4 as stated: whenever a call of a creation step of initVulkan returned a
\* non-success result, an exception is in flight or main has caught it.
C4_AnyFailureThrows == ignoredFailure => ~NoException

\* C4: when a call of a creation step whose result the step tests fails, the
\* step throws, it is the last step initVulkan called, no frame is drawn and
\* cleanup does not run, and main logs the message and returns EXIT_FAILURE.
C4_CheckedFailureThrows ==
  failedStep # "" =>
    /\ ~NoException
    /\ what # ""
    /\ initLog # << >> /\ initLog[Len(initLog)] = failedStep
    /\ frameSteps = << >> /\ currentFrame = 0 /\ cleanupDone = 0
    /\ \A f \in Frames : inflight[f] = 0
    /\ pc = "exited" => exitCode = "EXIT_FAILURE" /\ logged = what

\* main returned after createSwapChain threw
C4_Witness ==
  /\ pc = "exited"
  /\ failedStep = "createSwapChain"
  /\ exitCode = "EXIT_FAILURE"
  /\ logged = "failed to create swap chain!"

C7_CleanupDependencyOrder ==
  cleanupDone > 0 =>
    /\ ~IsLive(handles, "device", 1) =>
         \A k \in DeviceChildren : ~AnyLive(handles, k)
    /\ ~IsLive(handles, "instance", 1) =>
         ~IsLive(handles, "device", 1) /\ ~IsLive(handles, "surface", 1)
    /\ \A i \in DOMAIN handles["swapChainFramebuffers"] :
         IsLive(handles, "swapChainFramebuffers", i) =>
           IsLive(handles, "swapChainImageViews", i)
    /\ AnyLive(handles, "swapChainImageViews") => IsLive(handles, "swapChain", 1)
    /\ ~IsLive(handles, "window", 1) => ~IsLive(handles, "surface", 1)

\* cleanup has made its last call
C7_Witness ==
  /\ pc = "returned"
  /\ handles["instance"][1] = "destroyed"
  /\ handles["window"][1] = "destroyed"
  /\ handles["device"][1] = "destroyed"

\* C8: when run() has returned without an exception, every handle the program
\* created is destroyed, none was destroyed twice, and none was overwritten
\* or dropped while live.
C8_DestroyedExactlyOnce ==
  (pc = "returned" \/ (pc = "exited" /\ exitCode = "EXIT_SUCCESS")) =>
    /\ \A k \in Kinds : \A i \in DOMAIN handles[k] : handles[k][i] = "destroyed"
    /\ \A k \in Kinds : handles[k] # << >>
    /\ ~invalidDestroy
    /\ ~lostHandle

\* main returned EXIT_SUCCESS after the swapchain was recreated with three images
C8_Witness ==
  /\ pc = "exited"
  /\ exitCode = "EXIT_SUCCESS"
  /\ Len(handles["swapChainFramebuffers"]) = MaxImages
  /\ currentFrame = 1

\* C9: the GPU has at most MAX_FRAMES_IN_FLIGHT draw submissions it has not
\* finished.
C9_FramesInFlight == inflight[0] + inflight[1] <= MAX_FRAMES_IN_FLIGHT

\* both slots have a submission the GPU has not finished
C9_Witness ==
  /\ inflight[0] + inflight[1] = MAX_FRAMES_IN_FLIGHT
  /\ pc = "vkWaitForFences"

\* C10: the pipeline is built with one attribute per vertex-shader input, at
\* the input's location and with the component count of the input's type;
\* Vertex has three fields and each vertices initialiser has a group per field.
C10_VertexMatchesShader ==
  vertexInputState # << >> =>
    /\ Len(Vertex) = 3
    /\ Len(vertexInputState) = Len(ShaderInputs)
    /\ \A i \in 1 .. Len(ShaderInputs) :
         \E a \in 1 .. Len(vertexInputState) :
           /\ vertexInputState[a].location = ShaderInputs[i].location
           /\ FormatComponents(vertexInputState[a].format) =
                TypeComponents(ShaderInputs[i].type)
    /\ \A v \in DOMAIN vertices : Len(vertices[v]) = Len(Vertex)


\* the CPU is inside recreateSwapChain
InRecreate ==
  pc \in {"recreateSwapChain", "glfwGetFramebufferSize", "glfwWaitEvents",
          "vkDeviceWaitIdle", "cleanupSwapChain", "createSwapChain",
          "createImageViews", "createFramebuffers"}

\* C11: whenever drawFrame starts, inFlightFences[currentFrame] is signalled
\* or a pending submission of the slot will signal it, so the wait returns.
C11_FenceWaitCanReturn ==
  pc = "vkWaitForFences" => fence[currentFrame] \/ inflight[currentFrame] > 0

\* C12: a drawFrame call that returns early because the acquire was out of
\* date has left inFlightFences[currentFrame] signalled.
C12_EarlyReturnKeepsFenceSignalled ==
  (InRecreate /\ rcCaller = "acquire") => fence[currentFrame]

\* C13: a present that returns with framebufferResized set and a result that
\* does not throw enters recreateSwapChain and clears framebufferResized.
C13_ResizedFlagRecreates ==
  [][ (pc = "vkQueuePresentKHR" /\ pc' # pc /\ framebufferResized
         /\ result' = << "VK_SUCCESS" >>) =>
        (pc' = "recreateSwapChain" /\ ~framebufferResized')
    ]_vars

\* C14: a drawFrame call whose acquire and present both return VK_SUCCESS
\* with framebufferResized false goes on to its last statement without a
\* call of recreateSwapChain and without a change of any handle.
C14_SuccessKeepsSwapChain ==
  [][ (pc = "vkQueuePresentKHR" /\ pc' # pc /\ ~framebufferResized
         /\ result = << "VK_SUCCESS" >> /\ result' = << "VK_SUCCESS" >>) =>
        (pc' = "advanceFrame" /\ handles' = handles)
    ]_vars



\* the kinds of object C15 names: semaphores, fences, command pool, buffers,
\* images, pipeline, swapchain
C15Kinds ==
  {"imageAvailableSemaphores", "renderFinishedSemaphores", "inFlightFences",
   "commandPool", "vertexBuffer", "indexBuffer", "uniformBuffers",
   "graphicsPipeline", "swapChain"}

\* C15: while cleanup runs, every semaphore, fence, command pool, buffer,
\* pipeline and swapchain that a pending draw submission or present references
\* is still live.
C15_CleanupWhenGpuIdle ==
  cleanupDone > 0 =>
    \A u \in PendingUses : u[1] \in C15Kinds => IsLive(handles, u[1], u[2])

\* C16: recreateSwapChain destroys and recreates only with the device idle;
\* before cleanup runs, every framebuffer, image view and swapchain that
\* pending GPU work references is live; createSwapChain starts with the old
\* objects destroyed, createImageViews with the new swapchain, and
\* createFramebuffers with all image views of the new swapchain.
C16_RecreateWhenDeviceIdle ==
  /\ pc \in {"cleanupSwapChain", "createSwapChain", "createImageViews",
             "createFramebuffers"} =>
       /\ \A f \in Frames : inflight[f] = 0
       /\ presentPending = << >>
  /\ cleanupDone = 0 =>
       \A u \in PendingUses :
         u[1] \in {"swapChainFramebuffers", "swapChainImageViews", "swapChain"} =>
           IsLive(handles, u[1], u[2])
  /\ pc = "createSwapChain" =>
       /\ ~IsLive(handles, "swapChain", 1)
       /\ ~AnyLive(handles, "swapChainImageViews")
       /\ ~AnyLive(handles, "swapChainFramebuffers")
  /\ pc = "createImageViews" =>
       /\ IsLive(handles, "swapChain", 1)
       /\ ~AnyLive(handles, "swapChainImageViews")
       /\ ~AnyLive(handles, "swapChainFramebuffers")
  /\ pc = "createFramebuffers" =>
       /\ IsLive(handles, "swapChain", 1)
       /\ nViews = nImages
       /\ \A i \in 1 .. nViews : IsLive(handles, "swapChainImageViews", i)
       /\ ~AnyLive(handles, "swapChainFramebuffers")

\* recreateSwapChain, called after a present, is about to destroy the old
\* objects; the submission of this frame has finished
C16_Witness ==
  /\ pc = "cleanupSwapChain"
  /\ rcCaller = "present"
  /\ frameSteps = DrawFrameOrder
  /\ IsLive(handles, "swapChainFramebuffers", commandBuffers[currentFrame].framebuffer[1] + 1)

\* C17: when vkQueueSubmit has been given renderFinishedSemaphores[currentFrame]
\* to signal, no present that waits on that semaphore is still queued.
C17_SemaphoreNotReusedEarly ==
  pc = "vkQueuePresentKHR" =>
    \A i \in DOMAIN presentPending : presentPending[i].slot # currentFrame



\* the steps of the program's own thread: main, run and what they call
ProgramStep ==
  \/ RunInitWindow
  \/ InitVulkanStep
  \/ mainLoop
  \/ mainLoopExit
  \/ vkWaitForFences
  \/ vkResetFences
  \/ vkAcquireNextImageKHR
  \/ updateUniformBuffer
  \/ vkResetFences2
  \/ recordCommandBuffer
  \/ vkQueueSubmit
  \/ vkQueuePresentKHR
  \/ advanceFrame
  \/ recreateSwapChain
  \/ glfwGetFramebufferSize
  \/ glfwWaitEvents
  \/ vkDeviceWaitIdle
  \/ RecreateCleanupSwapChain
  \/ RecreateStep
  \/ CleanupCall
  \/ MainReturn
  \/ MainCatch

\* a submission or a present the GPU has not finished
GpuWorkPending ==
  (\E f \in Frames : inflight[f] > 0) \/ presentPending # << >>

\* C18: with the close flag set the program is never stuck before main has
\* returned: its thread can take a step, or it waits for GPU work that is
\* still pending (and completes); and when main has returned with no
\* exception thrown, it returned EXIT_SUCCESS after cleanup.
C18_CloseLeadsToExit ==
  /\ (windowShouldClose /\ pc # "exited") => (ENABLED ProgramStep \/ GpuWorkPending)
  /\ (windowShouldClose /\ pc = "exited" /\ what = "") =>
       (exitCode = "EXIT_SUCCESS" /\ cleanupDone > 0)

\* C19: recreateSwapChain calls createSwapChain only while the framebuffer of
\* the window has a non-zero size.
C19_CreateOnlyWhenNotMinimised ==
  pc = "createSwapChain" => ~minimised

\* C20 as stated: every step of a drawFrame call whose acquire returned
\* VK_ERROR_OUT_OF_DATE_KHR, up to its return, leaves currentFrame, the command
\* buffers, the uniform buffers and framebufferResized unchanged, and records,
\* submits and presents nothing.
C20_OutOfDateAcquireChangesNothing ==
  [][ (InRecreate /\ rcCaller = "acquire") =>
        /\ currentFrame' = currentFrame
        /\ commandBuffers' = commandBuffers
        /\ cpuWroteBusySlot' = cpuWroteBusySlot
        /\ framebufferResized' = framebufferResized
        /\ IsPrefix(frameSteps', << "wait", "acquire" >>)
        /\ presented' = presented ]_vars

\* C20 amended: the acquire that returns VK_ERROR_OUT_OF_DATE_KHR enters
\* recreateSwapChain; every step from there up to the return of drawFrame
\* leaves currentFrame, the command buffers and the uniform buffers unchanged,
\* never clears framebufferResized, starts no submission and no present, and
\* ends in mainLoop (or in the exception of a failed creation call).
C20_OutOfDateAcquireReturnsEarly ==
  [][ /\ (pc = "vkAcquireNextImageKHR" /\ pc' # pc
            /\ result' = << "VK_ERROR_OUT_OF_DATE_KHR" >>) =>
          (pc' = "recreateSwapChain" /\ rcCaller' = "acquire")
      /\ (InRecreate /\ rcCaller = "acquire") =>
          /\ currentFrame' = currentFrame
          /\ commandBuffers' = commandBuffers
          /\ cpuWroteBusySlot' = cpuWroteBusySlot
          /\ framebufferResized => framebufferResized'
          /\ IsPrefix(frameSteps', << "wait", "acquire" >>)
          /\ presented' = presented
          /\ \A f \in Frames : inflight'[f] <= inflight[f]
          /\ Len(presentPending') <= Len(presentPending)
          /\ InRecreate' \/ pc' \in {"mainLoop", "unwinding"} ]_vars

\* the second frame's acquire returned VK_ERROR_OUT_OF_DATE_KHR, the window
\* was resized while recreateSwapChain waited, and the last creation step is
\* about to return
C20_Witness ==
  /\ pc = "createFramebuffers"
  /\ rcCaller = "acquire"
  /\ currentFrame = 1
  /\ framebufferResized
  /\ frameSteps = << "wait", "acquire" >>



\* the vectors indexed by currentFrame (uniformBuffersMapped[i] is the mapping
\* of uniformBuffersMemory[i] and is resized with it)
PerFrameKinds ==
  {"commandBuffers", "imageAvailableSemaphores", "renderFinishedSemaphores",
   "inFlightFences", "uniformBuffers", "uniformBuffersMemory", "descriptorSets"}

\* initVulkan has returned
InitVulkanReturned == pc \notin {"initWindow", "initVulkan"} /\ failedStep = ""

\* C21: currentFrame is always in 0 .. MAX_FRAMES_IN_FLIGHT - 1; once initVulkan
\* has returned every per-frame vector has exactly MAX_FRAMES_IN_FLIGHT
\* entries; a drawFrame that has presented and throws nothing returns through
\* line 1642, which adds one modulo MAX_FRAMES_IN_FLIGHT, and no other step
\* changes currentFrame.
C21_CurrentFrameInRange ==
  /\ [](/\ currentFrame \in Frames
        /\ InitVulkanReturned =>
             \A k \in PerFrameKinds :
               DOMAIN handles[k] = 1 .. MAX_FRAMES_IN_FLIGHT)
  /\ [][ /\ currentFrame' =
              IF pc = "advanceFrame" /\ pc' # pc
                THEN (currentFrame + 1) % MAX_FRAMES_IN_FLIGHT
                ELSE currentFrame
         /\ (pc = "vkQueuePresentKHR" /\ pc' # pc) =>
              pc' \in {"advanceFrame", "recreateSwapChain", "unwinding"}
         /\ (InRecreate /\ rcCaller = "present" /\ ~InRecreate') =>
              pc' \in {"advanceFrame", "unwinding"}
         /\ (presented # << >> /\ pc # "mainLoop" /\ pc' = "mainLoop") =>
              currentFrame' = (currentFrame + 1) % MAX_FRAMES_IN_FLIGHT ]_vars

\* two drawFrame calls have returned: currentFrame has advanced from 1 to 0
C21_Witness ==
  /\ pc = "mainLoop"
  /\ currentFrame = 0
  /\ commandBuffers[1].framebuffer # << >>
  /\ frameSteps = << >>



\* C22: when drawFrame records a command buffer the swapchain is live,
\* swapChainImages, swapChainImageViews and swapChainFramebuffers have the same
\* length, every element of the three is a live object (none is left over from
\* a destroyed swapchain, none was overwritten while live), and imageIndex is an
\* index of swapChainFramebuffers.
C22_RecordUsesCurrentSwapChain ==
  pc = "recordCommandBuffer" =>
    /\ IsLive(handles, "swapChain", 1)
    /\ nFramebuffers = nViews
    /\ nViews = nImages
    /\ \A i \in 1 .. nImages :
         /\ IsLive(handles, "swapChainImages", i)
         /\ IsLive(handles, "swapChainImageViews", i)
         /\ IsLive(handles, "swapChainFramebuffers", i)
    /\ ~lostHandle
    /\ Len(imageIndex) = 1
    /\ imageIndex[1] \in 0 .. (nFramebuffers - 1)

\* the second drawFrame records for the last of three images; the first one
\* ended with a recreateSwapChain (framebufferResized is clear)
C22_Witness ==
  /\ pc = "recordCommandBuffer"
  /\ currentFrame = 1
  /\ ~framebufferResized
  /\ imageIndex = << MaxImages - 1 >>



\* the members the creation steps called so far have assigned (initWindow has
\* assigned window)
AssignedBy(log) == {"window"} \cup UNION {StepOutputs(log[j]) : j \in 1 .. Len(log)}

\* every slot of handle field k holds a live object
AllLive(h, k) == h[k] # << >> /\ \A i \in DOMAIN h[k] : h[k][i] = "live"

\* C23: when initVulkan is about to call a creation step, every member the
\* step reads has been assigned by a step called before it, and every handle
\* among them holds a live object.
C23_InputsCreatedEarlier ==
  (pc = "initVulkan" /\ Len(initLog) < Len(initVulkan)) =>
    \A u \in StepInputs(initVulkan[Len(initLog) + 1]) :
      /\ u \in AssignedBy(initLog)
      /\ u \in Kinds => AllLive(handles, u)

\* initVulkan is about to call createDescriptorSets, the step with most inputs
C23_Witness ==
  /\ pc = "initVulkan"
  /\ Len(initLog) < Len(initVulkan)
  /\ initVulkan[Len(initLog) + 1] = "createDescriptorSets"
  /\ AllLive(handles, "uniformBuffers")



\* the uniform buffer slot a recorded command buffer of slot f reads: binding 0
\* of the descriptor set it binds
UniformRead(f) == descriptorWrites[commandBuffers[f].descriptorSet[1]].binding0.buffer[2]

\* C24: descriptorSets[i] binds uniformBuffers[i] at binding 0 and the texture
\* view and sampler at binding 1; the command buffer a drawFrame for slot f has
\* recorded binds descriptorSets[f], so it reads uniformBuffers[f], which the same
\* call has written through uniformBuffersMapped[f]; every submission the GPU has
\* not finished reads the uniform buffer of its own slot, and the CPU has not
\* rewritten it meanwhile.
C24_DrawReadsOwnUniformBuffer ==
  /\ \A i \in Frames :
       /\ descriptorWrites[i].binding0.buffer = << "uniformBuffers", i >>
       /\ descriptorWrites[i].binding1 =
            [imageView |-> "textureImageView", sampler |-> "textureSampler"]
  /\ pc \in {"vkQueueSubmit", "vkQueuePresentKHR"} =>
       /\ commandBuffers[currentFrame].descriptorSet = << currentFrame >>
       /\ mappedWritten = << UniformRead(currentFrame) >>
       /\ IsLive(handles, "descriptorSets", currentFrame + 1)
       /\ IsLive(handles, "uniformBuffers", UniformRead(currentFrame) + 1)
       /\ IsLive(handles, "textureImageView", 1)
       /\ IsLive(handles, "textureSampler", 1)
  /\ \A f \in Frames :
       inflight[f] > 0 => (UniformRead(f) = f /\ ~cpuWroteBusySlot)

\* the draw of slot 1 has been submitted while that of slot 0 still executes
C24_Witness ==
  /\ pc = "vkQueuePresentKHR"
  /\ currentFrame = 1
  /\ mappedWritten = << 1 >>
  /\ inflight[0] > 0
  /\ inflight[1] > 0



\* the indices findMemoryType may return by its description: bit i of
\* typeFilter is set and memory type i has every requested property bit
SuitableTypes(c) ==
  {i \in 0 .. (Len(c.memoryTypes) - 1) :
     /\ (c.typeFilter \div ShiftLeft1(i)) % 2 = 1
     /\ \A b \in 0 .. (PropertyFlagBits - 1) :
          (c.properties \div ShiftLeft1(b)) % 2 = 1 =>
            (c.memoryTypes[i + 1] \div ShiftLeft1(b)) % 2 = 1}

\* C25: findMemoryType returns the smallest suitable index, and when there is
\* none it throws a runtime error and returns no index.
C25_FindMemoryTypeSmallestIndex ==
  (fnCall.fn = "findMemoryType" /\ fnReturn.done) =>
    IF SuitableTypes(fnCall) = {}
      THEN fnReturn.value = << >> /\ fnReturn.thrown # ""
      ELSE /\ fnReturn.thrown = ""
           /\ Len(fnReturn.value) = 1
           /\ fnReturn.value[1] \in SuitableTypes(fnCall)
           /\ \A i \in SuitableTypes(fnCall) : fnReturn.value[1] <= i

\* a call that skips memory type 0 (allowed by the mask, but with only one of
\* the two requested property bits) and returns 1
C25_Witness ==
  /\ fnCall.fn = "findMemoryType"
  /\ fnReturn.done
  /\ fnReturn.value = << 1 >>
  /\ fnCall.typeFilter = 3
  /\ fnCall.properties = 3
  /\ fnCall.memoryTypes[1] = 1

\* C26: for the non-empty list chooseSwapSurfaceFormat is given, it returns the
\* first entry with format B8G8R8A8_SRGB and colour space SRGB_NONLINEAR when
\* there is one, the first entry of the list otherwise, and always an entry of
\* the list.
C26_SurfaceFormatFirstPreferred ==
  (fnCall.fn = "chooseSwapSurfaceFormat" /\ fnReturn.done) =>
    LET q == fnCall.availableFormats
        preferred ==
          {i \in DOMAIN q :
             q[i] = [format |-> "VK_FORMAT_B8G8R8A8_SRGB",
                     colorSpace |-> "VK_COLOR_SPACE_SRGB_NONLINEAR_KHR"]}
    IN /\ fnReturn.thrown = ""
       /\ Len(fnReturn.value) = 1
       /\ \E i \in DOMAIN q : fnReturn.value[1] = q[i]
       /\ IF preferred = {}
            THEN fnReturn.value[1] = q[1]
            ELSE \E i \in preferred :
                   /\ fnReturn.value[1] = q[i]
                   /\ \A j \in preferred : i <= j

\* the preferred format is the last of three; the first has the same format
\* with another colour space
C26_Witness ==
  /\ fnCall.fn = "chooseSwapSurfaceFormat"
  /\ fnReturn.done
  /\ Len(fnCall.availableFormats) = 3
  /\ fnCall.availableFormats[1] =
       [format |-> "VK_FORMAT_B8G8R8A8_SRGB",
        colorSpace |-> "VK_COLOR_SPACE_DISPLAY_P3_NONLINEAR_EXT"]
  /\ fnReturn.value = << fnCall.availableFormats[3] >>

\* C27: chooseSwapPresentMode returns VK_PRESENT_MODE_MAILBOX_KHR exactly when
\* that mode is in the list, and VK_PRESENT_MODE_FIFO_KHR in every other case.
C27_PresentModeMailboxOrFifo ==
  (fnCall.fn = "chooseSwapPresentMode" /\ fnReturn.done) =>
    LET q == fnCall.availablePresentModes
        hasMailbox == \E i \in DOMAIN q : q[i] = "VK_PRESENT_MODE_MAILBOX_KHR"
    IN /\ fnReturn.thrown = ""
       /\ fnReturn.value =
            IF hasMailbox THEN << "VK_PRESENT_MODE_MAILBOX_KHR" >>
                          ELSE << "VK_PRESENT_MODE_FIFO_KHR" >>

\* a list that holds neither mailbox nor FIFO first: FIFO is returned
C27_Witness ==
  /\ fnCall.fn = "chooseSwapPresentMode"
  /\ fnReturn.done
  /\ fnCall.availablePresentModes =
       << "VK_PRESENT_MODE_IMMEDIATE_KHR", "VK_PRESENT_MODE_FIFO_RELAXED_KHR" >>
  /\ fnReturn.value = << "VK_PRESENT_MODE_FIFO_KHR" >>


====
